---- MODULE Spec2Model ----
(***************************************************************************)
(* Base64 padding steganography (stegano-b64-padding.py).                  *)
(*                                                                         *)
(* Characters of the carrier text and of the secret are represented by     *)
(* their code points, bytes by their values, Base64 characters by          *)
(* one-character strings, bit strings by sequences over {0, 1}.            *)
(* Python indices are kept 0-based; At(s, i) reads position i of s.        *)
(***************************************************************************)
EXTENDS Integers, Sequences, FiniteSets, TLC

\* ---------------------------------------------------------------- bounds
MaxTextLen == 8
MaxSecretLen == 2
CarrierChars == {32, 97}
\* the carrier "a b"
ScenarioCarriers == {<<97, 32, 98>>}
SecretCodes == {72, 127, 200, 300}
MaxWordLen == 4
WordChars == {0, 97, 127}
LenSlack == 3
EqSlack == 3

\* ------------------------------------------------------- python helpers
At(s, i) == s[i + 1]

Slice(s, a, b) == SubSeq(s, a + 1, b)

Min(a, b) == IF a < b THEN a ELSE b

Repeat(c, n) == [k \in 1..n |-> c]

\* str.count(c)
Count(s, c) == Cardinality({k \in 1..Len(s) : s[k] = c})

\* str.index(c); -1 stands for the raised ValueError
Index(s, c) ==
  IF \E k \in 1..Len(s) : s[k] = c
  THEN (CHOOSE k \in 1..Len(s) : s[k] = c /\ \A j \in 1..(k - 1) : s[j] # c) - 1
  ELSE -1

\* bin(n)[2:] for n >= 0
RECURSIVE Bin(_)
Bin(n) == IF n < 2 THEN <<n>> ELSE Bin(n \div 2) \o <<n % 2>>

\* "{0:b}".format(n); the sign of a negative number is the element -1
FormatB(n) == IF n < 0 THEN <<-1>> \o Bin(0 - n) ELSE Bin(n)

\* str.zfill(width): zeros go after a leading sign
Zfill(s, width) ==
  IF Len(s) >= width THEN s
  ELSE IF Len(s) > 0 /\ s[1] = -1
       THEN <<-1>> \o Repeat(0, width - Len(s)) \o Tail(s)
       ELSE Repeat(0, width - Len(s)) \o s

\* int(s, 2) of a non-empty bit string
RECURSIVE Int2(_)
Int2(s) == IF Len(s) = 0 THEN 0 ELSE 2 * Int2(SubSeq(s, 1, Len(s) - 1)) + s[Len(s)]

\* int(s) without the base: the digits read in base 10
RECURSIVE Int10(_)
Int10(s) == IF Len(s) = 0 THEN 0 ELSE 10 * Int10(SubSeq(s, 1, Len(s) - 1)) + s[Len(s)]

\* str.split() without the separator: runs of spaces separate, no empty word
RECURSIVE SplitWhitespace(_)
SplitWhitespace(s) ==
  LET k == Index(s, 32)
  IN  IF k = -1 THEN (IF Len(s) = 0 THEN <<>> ELSE <<s>>)
      ELSE (IF k = 0 THEN <<>> ELSE <<Slice(s, 0, k)>>)
             \o SplitWhitespace(Slice(s, k + 1, Len(s)))

\* str.split(' ')
RECURSIVE Split(_)
Split(s) ==
  LET k == Index(s, 32)
  IN  IF k = -1 THEN <<s>>
      ELSE <<Slice(s, 0, k)>> \o Split(Slice(s, k + 1, Len(s)))

\* re.findall('.{7}', s)
RECURSIVE FindAll7(_)
FindAll7(s) ==
  IF Len(s) < 7 THEN <<>>
  ELSE <<Slice(s, 0, 7)>> \o FindAll7(Slice(s, 7, Len(s)))

\* ------------------------------------------------------------- alphabet
dict ==
  << "A","B","C","D","E","F","G","H","I","J","K","L","M",
     "N","O","P","Q","R","S","T","U","V","W","X","Y","Z",
     "a","b","c","d","e","f","g","h","i","j","k","l","m",
     "n","o","p","q","r","s","t","u","v","w","x","y","z",
     "0","1","2","3","4","5","6","7","8","9","+","/" >>

\* dict.index(c): the characters of dict are distinct; -1 stands for the
\* raised ValueError
DictIndex(c) ==
  IF \E k \in 1..Len(dict) : dict[k] = c
  THEN (CHOOSE k \in 1..Len(dict) : dict[k] = c) - 1
  ELSE -1

\* ---------------------------------------------------------- base64 codec
\* b64encode(bytes).decode('ascii')
RECURSIVE b64encode(_)
b64encode(bs) ==
  IF Len(bs) = 0 THEN <<>>
  ELSE IF Len(bs) = 1 THEN
    << At(dict, bs[1] \div 4), At(dict, (bs[1] % 4) * 16), "=", "=" >>
  ELSE IF Len(bs) = 2 THEN
    << At(dict, bs[1] \div 4),
       At(dict, (bs[1] % 4) * 16 + bs[2] \div 16),
       At(dict, (bs[2] % 16) * 4), "=" >>
  ELSE
    << At(dict, bs[1] \div 4),
       At(dict, (bs[1] % 4) * 16 + bs[2] \div 16),
       At(dict, (bs[2] % 16) * 4 + bs[3] \div 64),
       At(dict, bs[3] % 64) >> \o b64encode(Slice(bs, 3, Len(bs)))

\* b64decode(word) of a padded token: the bits of the last character that
\* do not fill a byte are discarded
RECURSIVE b64decode(_)
b64decode(w) ==
  IF Len(w) < 4 THEN <<>>
  ELSE
    LET i1 == DictIndex(w[1])
        i2 == DictIndex(w[2])
        i3 == DictIndex(w[3])
        i4 == DictIndex(w[4])
        b1 == i1 * 4 + i2 \div 16
        b2 == (i2 % 16) * 16 + i3 \div 4
        b3 == (i3 % 4) * 64 + i4
    IN  IF w[3] = "=" THEN <<b1>>
        ELSE IF w[4] = "=" THEN <<b1, b2>>
        ELSE <<b1, b2, b3>> \o b64decode(Slice(w, 4, Len(w)))

\* --------------------------------------------------------- word codec
IndexError == <<"IndexError">>

ValueError == <<"ValueError">>

\* int(secret) in encode_word, the base left out
DeltaBase10(bits) == Int10(bits)

\* int(secret, 2) in encode_word
Delta(bits) == Int2(bits)

\* the character encode_word rewrites
ToModify(word) == At(word, Index(word, "=") - 1)

\* encode_word reading the character one position too far to the left
encode_word_prev(word, bits) ==
  LET first_equal == Index(word, "=")
      to_modify == At(word, first_equal - 2)
      delta == Delta(bits)
      pos == DictIndex(to_modify) + delta
  IN  IF Len(bits) = 0 THEN ValueError
      ELSE IF pos > 63 THEN IndexError
      ELSE Slice(word, 0, first_equal - 2) \o <<At(dict, pos)>>
             \o Slice(word, first_equal - 1, first_equal)
             \o Repeat("=", Len(word) - first_equal)

encode_word(word, bits) ==
  LET first_equal == Index(word, "=")
      to_modify == ToModify(word)
      delta == Delta(bits)
      pos == DictIndex(to_modify) + delta
  IN  IF Len(bits) = 0 THEN ValueError
      ELSE IF pos > 63 THEN IndexError
      ELSE Slice(word, 0, first_equal - 1) \o <<At(dict, pos)>>
             \o Repeat("=", Len(word) - first_equal)

\* decode_word without the zfill
decode_word_nofill(word) ==
  LET first_equal == Index(word, "=")
      encoded_char == At(word, first_equal - 1)
      base == b64encode(b64decode(word))
      base_char == At(base, first_equal - 1)
      secret_index == DictIndex(encoded_char) - DictIndex(base_char)
  IN  FormatB(secret_index)

decode_word(word) ==
  LET first_equal == Index(word, "=")
      encoded_char == At(word, first_equal - 1)
      base == b64encode(b64decode(word))
      base_char == At(base, first_equal - 1)
      secret_index == DictIndex(encoded_char) - DictIndex(base_char)
  IN  Zfill(FormatB(secret_index), 2 * Count(word, "="))

\* ------------------------------------------------------------- framing
count_equals(word_list) ==
  LET RECURSIVE Sum(_)
      Sum(k) == IF k = 0 THEN 0 ELSE Sum(k - 1) + Count(word_list[k], "=")
  IN  2 * Sum(Len(word_list))

\* the test with >= for >
CapacityExceededGE(n, secret_max_length) == 7 * n + 16 >= secret_max_length

\* the test without the 16 bits of the length
CapacityExceededNoHeader(n, secret_max_length) == 7 * n > secret_max_length

\* the test of encode that raises ValueError
CapacityExceeded(n, secret_max_length) == 7 * n + 16 > secret_max_length

\* bin(len(secret))[2:].zfill(16)
LengthPrefix(n) == Zfill(Bin(n), 16)

\* bin(ord(char))[2:].zfill(7)
CharBits(code) == Zfill(Bin(code), 7)

RECURSIVE SecretBits(_)
SecretBits(s) == IF Len(s) = 0 THEN <<>> ELSE CharBits(s[1]) \o SecretBits(Tail(s))

\* bin_secret + (secret_max_length - len(bin_secret)) * '0'
ZeroFill(bits, secret_max_length) ==
  IF secret_max_length > Len(bits)
  THEN bits \o Repeat(0, secret_max_length - Len(bits))
  ELSE bits

\* ---------------------------------------------------------------- state
VARIABLES
  text, secret,            \* arguments of encode
  pc,                      \* position in encode / decode
  err,                     \* the exception raised, "" if none
  words_b64, secret_max_length, bin_secret, encoded_list,
  widx,                    \* tokens the current for loop has processed
  dec_bin_secret, decoded_string, dec_secret,
  \* one word through encode_word / decode_word
  w_word, w_bits, w_pc, w_enc, w_out, w_bytes,
  \* encode / decode of a long secret, by lengths
  l_len, l_equals, l_pc, l_err, l_prefix, l_stream_len, l_dec_len

mainVars == << text, secret, pc, err, words_b64, secret_max_length, bin_secret,
               encoded_list, widx, dec_bin_secret, decoded_string, dec_secret >>

wordVars == << w_word, w_bits, w_pc, w_enc, w_out, w_bytes >>

lenVars == << l_len, l_equals, l_pc, l_err, l_prefix, l_stream_len, l_dec_len >>

vars == << mainVars, wordVars, lenVars >>

Seqs(S, n) == UNION {[1..k -> S] : k \in 0..n}

MainIdle ==
  /\ text = <<>>
  /\ secret = <<>>
  /\ pc = "idle"
  /\ err = ""
  /\ words_b64 = <<>>
  /\ secret_max_length = 0
  /\ bin_secret = <<>>
  /\ encoded_list = <<>>
  /\ widx = 0
  /\ dec_bin_secret = <<>>
  /\ decoded_string = <<>>
  /\ dec_secret = <<>>

WordIdle ==
  /\ w_word = <<>>
  /\ w_bits = <<>>
  /\ w_pc = "idle"
  /\ w_enc = <<>>
  /\ w_out = <<>>
  /\ w_bytes = <<>>

LenIdle ==
  /\ l_len = 0
  /\ l_equals = 0
  /\ l_pc = "idle"
  /\ l_err = ""
  /\ l_prefix = <<>>
  /\ l_stream_len = 0
  /\ l_dec_len = 0

Init ==
  /\ WordIdle
  /\ LenIdle
  /\ text \in Seqs(CarrierChars, MaxTextLen) \cup ScenarioCarriers
  /\ secret \in Seqs(SecretCodes, MaxSecretLen)
  /\ pc = "start"
  /\ err = ""
  /\ words_b64 = <<>>
  /\ secret_max_length = 0
  /\ bin_secret = <<>>
  /\ encoded_list = <<>>
  /\ widx = 0
  /\ dec_bin_secret = <<>>
  /\ decoded_string = <<>>
  /\ dec_secret = <<>>

\* encode, up to the capacity test
EncodeCheck ==
  /\ pc = "start"
  /\ LET words == Split(text)
         b64 == [k \in 1..Len(words) |-> b64encode(words[k] \o <<32>>)]
         max == count_equals(b64)
     IN  IF \E k \in 1..Len(text) : text[k] > 127
         THEN /\ pc' = "raised"
              /\ err' = "UnicodeEncodeError"
              /\ UNCHANGED << words_b64, secret_max_length >>
         ELSE /\ words_b64' = b64
              /\ secret_max_length' = max
              /\ IF CapacityExceeded(Len(secret), max)
                 THEN pc' = "raised" /\ err' = "ValueError"
                 ELSE pc' = "frame" /\ err' = ""
  /\ UNCHANGED << text, secret, bin_secret, encoded_list, widx,
                  dec_bin_secret, decoded_string, dec_secret >>
  /\ UNCHANGED << wordVars, lenVars >>

\* encode: the bit stream
EncodeFrame ==
  /\ pc = "frame"
  /\ bin_secret' = ZeroFill(LengthPrefix(Len(secret)) \o SecretBits(secret),
                            secret_max_length)
  /\ encoded_list' = <<>>
  /\ widx' = 0
  /\ pc' = "enc_loop"
  /\ UNCHANGED << text, secret, err, words_b64, secret_max_length,
                  dec_bin_secret, decoded_string, dec_secret >>
  /\ UNCHANGED << wordVars, lenVars >>

\* encode: one iteration of the loop over words_b64
EncodeLoop ==
  /\ pc = "enc_loop"
  /\ widx < Len(words_b64)
  /\ LET word == words_b64[widx + 1]
         equals == Count(word, "=")
         enc == encode_word(word, Slice(bin_secret, 0, Min(2 * equals, Len(bin_secret))))
     IN  IF equals > 0
         THEN IF enc \in {IndexError, ValueError}
              THEN /\ pc' = "raised"
                   /\ err' = enc[1]
                   /\ UNCHANGED << encoded_list, bin_secret, widx >>
              ELSE /\ encoded_list' = Append(encoded_list, enc)
                   /\ bin_secret' = Slice(bin_secret, Min(2 * equals, Len(bin_secret)),
                                          Len(bin_secret))
                   /\ widx' = widx + 1
                   /\ UNCHANGED << pc, err >>
         ELSE /\ encoded_list' = Append(encoded_list, word)
              /\ widx' = widx + 1
              /\ UNCHANGED << pc, err, bin_secret >>
  /\ UNCHANGED << text, secret, words_b64, secret_max_length,
                  dec_bin_secret, decoded_string, dec_secret >>
  /\ UNCHANGED << wordVars, lenVars >>

\* encode: return encoded_list
EncodeReturn ==
  /\ pc = "enc_loop"
  /\ widx = Len(words_b64)
  /\ pc' = "encoded"
  /\ widx' = 0
  /\ UNCHANGED << text, secret, err, words_b64, secret_max_length, bin_secret,
                  encoded_list, dec_bin_secret, decoded_string, dec_secret >>
  /\ UNCHANGED << wordVars, lenVars >>

\* decode(encoded_list): one iteration of the loop
DecodeLoop ==
  /\ pc = "encoded"
  /\ widx < Len(encoded_list)
  /\ LET word == encoded_list[widx + 1]
     IN  /\ dec_bin_secret' = IF Count(word, "=") > 0
                              THEN dec_bin_secret \o decode_word(word)
                              ELSE dec_bin_secret
         /\ decoded_string' = decoded_string \o b64decode(word)
  /\ widx' = widx + 1
  /\ UNCHANGED << text, secret, pc, err, words_b64, secret_max_length,
                  bin_secret, encoded_list, dec_secret >>
  /\ UNCHANGED << wordVars, lenVars >>

\* decode: the secret is read off the collected bits
DecodeFinish ==
  /\ pc = "encoded"
  /\ widx = Len(encoded_list)
  /\ LET secret_length == Int2(Slice(dec_bin_secret, 0, Min(16, Len(dec_bin_secret))))
         rest == Slice(dec_bin_secret, Min(16, Len(dec_bin_secret)), Len(dec_bin_secret))
         letters == FindAll7(rest)
         binary_letters == Slice(letters, 0, Min(secret_length, Len(letters)))
     IN  dec_secret' = [k \in 1..Len(binary_letters) |-> Int2(binary_letters[k])]
  /\ pc' = "decoded"
  /\ UNCHANGED << text, secret, err, words_b64, secret_max_length, bin_secret,
                  encoded_list, widx, dec_bin_secret, decoded_string >>
  /\ UNCHANGED << wordVars, lenVars >>

Next ==
  \/ EncodeCheck
  \/ EncodeFrame
  \/ EncodeLoop
  \/ EncodeReturn
  \/ DecodeLoop
  \/ DecodeFinish

Spec == Init /\ [][Next]_vars

\* ------------------------------------------ one word, every bit group
\* the token encode hands to encode_word: b64encode(word + " ")
WToken == b64encode(w_word \o <<32>>)

WordInit ==
  /\ MainIdle
  /\ LenIdle
  /\ w_word \in {w \in Seqs(WordChars, MaxWordLen) :
                   Count(b64encode(w \o <<32>>), "=") > 0}
  /\ w_bits = <<>>
  /\ w_pc = "start"
  /\ w_enc = <<>>
  /\ w_out = <<>>
  /\ w_bytes = <<>>

\* encode_word(word, secret) with a bit group of the width encode passes
WordEncode ==
  /\ w_pc = "start"
  /\ \E g \in [1..(2 * Count(WToken, "=")) -> {0, 1}] :
       /\ w_bits' = g
       /\ w_enc' = encode_word(WToken, g)
       /\ w_pc' = IF encode_word(WToken, g) \in {IndexError, ValueError}
                  THEN "raised" ELSE "rewritten"
  /\ UNCHANGED << w_word, w_out, w_bytes, mainVars, lenVars >>

\* decode_word(word) and b64decode(word) of the rewritten token
WordDecode ==
  /\ w_pc = "rewritten"
  /\ w_out' = decode_word(w_enc)
  /\ w_bytes' = b64decode(w_enc)
  /\ w_pc' = "extracted"
  /\ UNCHANGED << w_word, w_bits, w_enc, mainVars, lenVars >>

WordNext ==
  \/ WordEncode
  \/ WordDecode

SpecWord == WordInit /\ [][WordNext]_vars

\* ------------------------------- secrets around 2^16 characters, by length
\* The secret is l_len characters of codes 0..127, the carrier has l_equals
\* '=' characters; the bit strings are followed by their lengths, the length
\* prefix by its bits.
LimitLen == 2 ^ 16 - 1

LenInit ==
  /\ MainIdle
  /\ WordIdle
  /\ l_len \in (LimitLen + 1 - LenSlack)..(LimitLen + 1 + LenSlack)
  /\ \E d \in (0 - EqSlack)..EqSlack : l_equals = (7 * l_len + 16) \div 2 + d
  /\ l_pc = "start"
  /\ l_err = ""
  /\ l_prefix = <<>>
  /\ l_stream_len = 0
  /\ l_dec_len = 0

\* encode, up to the capacity test: secret_max_length is 2 * l_equals
LenEncodeCheck ==
  /\ l_pc = "start"
  /\ IF CapacityExceeded(l_len, 2 * l_equals)
     THEN l_pc' = "raised" /\ l_err' = "ValueError"
     ELSE l_pc' = "frame" /\ l_err' = ""
  /\ UNCHANGED << l_len, l_equals, l_prefix, l_stream_len, l_dec_len,
                  mainVars, wordVars >>

\* encode: the bit stream (7 bits a character) and the loop, which hands
\* 2 * l_equals bits of it to the tokens
LenEncodeFrame ==
  /\ l_pc = "frame"
  /\ l_prefix' = LengthPrefix(l_len)
  /\ l_stream_len' = IF 2 * l_equals > Len(LengthPrefix(l_len)) + 7 * l_len
                     THEN 2 * l_equals
                     ELSE Len(LengthPrefix(l_len)) + 7 * l_len
  /\ l_pc' = "encoded"
  /\ UNCHANGED << l_len, l_equals, l_err, l_dec_len, mainVars, wordVars >>

\* decode: the 2 * l_equals bits collected start with the first 16 bits of
\* the prefix; the groups of 7 bits after them are cut to secret_length
LenDecode ==
  /\ l_pc = "encoded"
  /\ LET secret_length == Int2(Slice(l_prefix, 0, 16))
         letters == (2 * l_equals - 16) \div 7
     IN  l_dec_len' = Min(secret_length, letters)
  /\ l_pc' = "decoded"
  /\ UNCHANGED << l_len, l_equals, l_err, l_prefix, l_stream_len,
                  mainVars, wordVars >>

LenNext ==
  \/ LenEncodeCheck
  \/ LenEncodeFrame
  \/ LenDecode

SpecLen == LenInit /\ [][LenNext]_vars

\* ------------------------------------------------------------ properties
\* Capacity of the carrier by the padding rule of the encoding: a word and
\* its space of n bytes end in 0, 2 or 1 '=' for n mod 3 = 0, 1 or 2.
PaddingOfLength(n) == IF n % 3 = 0 THEN 0 ELSE IF n % 3 = 1 THEN 2 ELSE 1

\* 0 and the positions of the spaces: the place before each word of text
WordStarts == {0} \cup {k \in 1..Len(text) : text[k] = 32}

WordLengthAt(b) ==
  LET ends == {k \in 1..Len(text) : text[k] = 32 /\ k > b} \cup {Len(text) + 1}
  IN  (CHOOSE e \in ends : \A f \in ends : e <= f) - b - 1

TextCapacity ==
  2 * (2 * Cardinality({b \in WordStarts : PaddingOfLength(WordLengthAt(b) + 1) = 2})
         + Cardinality({b \in WordStarts : PaddingOfLength(WordLengthAt(b) + 1) = 1}))

Fits == 16 + 7 * Len(secret) <= TextCapacity

IsAscii(s) == \A k \in 1..Len(s) : s[k] <= 127

\* C1: the secret decode returns has the length of the secret encode was
\* given, whenever the secret fits the carrier (its characters 0..127).
C1_RoundTripLength ==
  l_pc = "decoded" => l_dec_len = l_len

\* C1 within the length limit (secrets of up to MaxSecretLen characters):
\* decode returns the secret encode was given.
RoundTripShortSecret ==
  (pc = "decoded" /\ IsAscii(secret)) => dec_secret = secret

\* C2: encode raises the capacity error exactly when 16 + 7*len(secret)
\* exceeds the capacity of the carrier, which is the number encode counted;
\* it raises nothing else, so at equality it succeeds and one character
\* above the largest secret that fits it fails.
C2_CapacityBoundary ==
  pc # "start" =>
    /\ secret_max_length = TextCapacity
    /\ (err = "ValueError") <=> ~Fits
    /\ err \in {"", "ValueError"}
    /\ (pc = "raised") <=> ~Fits
    /\ (Len(secret) = (TextCapacity - 16) \div 7 + 1) => pc = "raised"

C2_Witness ==
  /\ pc = "decoded"
  /\ 16 + 7 * Len(secret) = TextCapacity

\* C3 as stated: with the empty secret encode succeeds on every carrier and
\* decode returns ("", text).
C3_Original ==
  secret = <<>> =>
    /\ pc # "raised"
    /\ pc = "decoded" => (dec_secret = <<>> /\ decoded_string = text)

\* C3 amended: with the empty secret encode succeeds when the carrier holds
\* at least 16 bits and raises the capacity error otherwise (as for "a b",
\* which holds 4); decode then returns "" and the text followed by a space.
C3_EmptySecretRoundTrip ==
  (secret = <<>> /\ pc # "start") =>
    /\ (pc = "raised") <=> (TextCapacity < 16)
    /\ text = <<97, 32, 98>> => (pc = "raised" /\ err = "ValueError")
    /\ pc = "decoded" => (dec_secret = <<>> /\ decoded_string = text \o <<32>>)

C3_Witness ==
  /\ secret = <<>>
  /\ pc = "decoded"
  /\ Len(text) > 0

\* C4: decode_word of the token encode_word rewrote returns the bit group
\* that was written, in its full width.
C4_SlotInvolution ==
  w_pc = "extracted" => (w_out = w_bits /\ Len(w_out) = 2 * Count(WToken, "="))

C4_Witness ==
  /\ w_pc = "extracted"
  /\ Len(w_bits) = 4
  /\ w_bits[1] = 0
  /\ w_bits[4] = 1

\* C5: every token of encode's list decodes to its carrier word and a
\* space, whatever bits it carries, and decode returns the carrier text and
\* a space whatever the secret.
C5_CarrierUnaffected ==
  /\ pc \in {"enc_loop", "encoded", "decoded"} =>
       \A k \in 1..Len(encoded_list) :
         /\ b64decode(encoded_list[k]) = b64decode(words_b64[k])
         /\ b64decode(encoded_list[k]) = Split(text)[k] \o <<32>>
  /\ pc = "decoded" => decoded_string = text \o <<32>>

C5_Witness ==
  /\ pc = "decoded"
  /\ \E k \in 1..Len(encoded_list) : encoded_list[k] # words_b64[k]

\* C6: a secret character of code 128 or more is stored as its code mod 128
\* and decode returns that, the other characters unchanged.
C6_Truncation ==
  (pc = "decoded" /\ ~IsAscii(secret)) =>
    dec_secret = [k \in 1..Len(secret) |-> secret[k] % 128]

\* C7: encode fails with SecretTooLong when the secret has more than 65535
\* characters, and the length prefix it writes has 16 bits.
C7_SecretTooLong ==
  /\ (l_len > LimitLen /\ l_pc # "start") =>
       (l_pc = "raised" /\ l_err = "SecretTooLong")
  /\ l_pc \in {"encoded", "decoded"} => Len(l_prefix) = 16

C9_StreamConsumption ==
  /\ pc = "enc_loop" =>
       Len(bin_secret) = secret_max_length - count_equals(SubSeq(words_b64, 1, widx))
  /\ pc \in {"encoded", "decoded"} => bin_secret = <<>>

\* C10: the index of the rewritten character plus the value of the bit
\* group stays within 0..63: encode_word raises no IndexError.
C10_NoAlphabetOverflow ==
  w_pc # "start" =>
    /\ w_enc # IndexError
    /\ w_pc # "raised"
    /\ DictIndex(ToModify(WToken)) + Int2(w_bits) \in 0..63

C10_Witness ==
  /\ w_pc = "rewritten"
  /\ Len(w_bits) = 4
  /\ Int2(w_bits) = 15
  /\ Len(w_word) = 3

====
